---- MODULE Spec2Model ----
(***************************************************************************)
(* The Cache component of exercise2_3_reusable_components.py: CacheEntry,  *)
(* Cache.get / set / delete / clear / _evict / get_stats, with the clock   *)
(* (datetime.now) as an environment variable.                              *)
(*                                                                         *)
(* Spec       every public method is one action (its body runs under the   *)
(*            cache's RLock), on caches of every configuration, with a     *)
(*            workload of two keys, two values and TTLs None, 0 and 1.     *)
(* SpecEvict  the same actions on caches of max_size 2 under each of the   *)
(*            four policies, with a workload of three keys that overflows  *)
(*            the cache.                                                   *)
(* In both the clock advances between calls: every reading one call takes  *)
(* is the same.                                                            *)
(* SpecThreads  threads call the methods; each method is the sequence of   *)
(*            its statements between acquiring and releasing the lock, and *)
(*            the clock advances between any two statements.               *)
(* In these three no logger is attached, as after Cache.__init__.          *)
(* SpecLogger   the atomic methods on caches that set_logger gave a Logger   *)
(*            or a logger whose debug and info raise.                      *)
(* SpecTwin   a cache of policy TTL and a cache of policy LRU, of the same   *)
(*            configuration otherwise, take the same calls at the same     *)
(*            clock readings.                                              *)
(* SpecStats  gets, sets and deletes on a cache, long enough for three hits  *)
(*            and a miss.                                                  *)
(* SpecCtor   the atomic methods on caches built with any max_size.         *)
(* SpecTtl    the atomic methods with sets of negative, zero and positive   *)
(*            TTL.                                                         *)
(* SpecIndex  the atomic methods with "key in cache" and "cache[key]", on a  *)
(*            cache of two entries that can hold the value None.           *)
(* SpecLevels a Logger of each minimum level, with a BufferLogHandler, and   *)
(*            calls of debug, info, warning, error and critical.           *)
(* SpecExpire entries with and without a TTL on caches of max_size 2 that    *)
(*            overflow while the clock advances.                           *)
(* SpecLocks  threads call the methods of a cache whose Logger they share   *)
(*            and also call directly; Logger._log takes the Logger's own   *)
(*            lock inside the cache's. Every thread that can take a step   *)
(*            eventually takes one.                                        *)
(***************************************************************************)
EXTENDS Integers, Sequences, FiniteSets, TLC

\* ---------------------------------------------------------------- bounds
\* calls a behaviour of Spec makes / of SpecEvict makes; the last clock reading
MaxOps == 3
MaxOpsEvict == 4
MaxTime == 2
\* threads of SpecThreads, and the calls they make in all
NumThreads == 2
MaxCalls == 2
\* calls a behaviour of SpecTwin makes
MaxOpsTwin == 4
\* calls a behaviour of SpecStats makes
MaxOpsStats == 6

Keys == {"A", "B", "C"}
FewKeys == {"A", "B"}
Values == {"v1", "v2"}
Defaults == {"dflt"}
\* what set can store: a value, or Python's None
StoredValues == Values \cup {"None"}

\* Optional[int] / Optional[datetime]: None is << >>, a value x is <<x>>.
None == << >>
Ttls == {None, <<0>>, <<1>>}
DefaultTtls == {None, <<1>>}
\* the ttl arguments of SpecTtl: none, negative, zero, positive
TtlArgs == {None, <<-1>>, <<0>>, <<1>>}
MaxSizes == {0, 1}
\* the max_size arguments the constructor is called with
MaxSizeArgs == {-1, 0, 1}

\* class EvictionPolicy(Enum)
EvictionPolicy == {"lru", "lfu", "fifo", "ttl"}

VARIABLES
    entries,      \* Cache._entries: insertion-ordered dict, as a sequence of CacheEntry
    stats,        \* Cache._stats
    max_size,     \* Cache.max_size
    policy,       \* Cache.policy
    default_ttl,  \* Cache.default_ttl
    now,          \* the reading datetime.now() returns
    budget,       \* number of calls the workload makes
    ops,          \* number of calls made so far
    getCalls,     \* number of get calls made so far
    last,         \* the most recent call: its arguments and what it returned
    hist,         \* per key: what the calls so far did to it
    pc,           \* per thread: where it is in the method it called
    owner,        \* the thread that holds Cache._lock
    frame,        \* per thread: the arguments and locals of its call
    lin,          \* the cache the calls returned so far give when run one after another
    logger,       \* Cache.logger
    log_owner,    \* the thread that holds Logger._lock
    twin,         \* a second cache: same calls, same clock readings, policy LRU
    buffer        \* BufferLogHandler.buffer of the handler SpecLevels adds to the
                  \* Logger, as the levels of its entries; elsewhere the Logger has
                  \* no handler

vars == <<entries, stats, max_size, policy, default_ttl, now,
          budget, ops, getCalls, last, hist, pc, owner, frame, lin,
          logger, log_owner, twin, buffer>>

\* ------------------------------------------------------- Python helpers
\* truth value of an Optional[int]: None and 0 are falsy
Truthy(o) == o # None /\ o[1] # 0

\* a or b
PyOr(a, b) == IF Truthy(a) THEN a ELSE b

\* key in self._entries
HasKey(es, key) == \E i \in 1..Len(es) : es[i].key = key

IndexOf(es, key) == CHOOSE i \in 1..Len(es) : es[i].key = key

\* self._entries[key]
EntryOf(es, key) == es[IndexOf(es, key)]

\* del self._entries[key]
DelKey(es, key) == SelectSeq(es, LAMBDA e : e.key # key)

\* self._entries.keys()
StoredKeys(es) == {es[i].key : i \in 1..Len(es)}

\* self._stats[name] += 1
IncStat(st, name) == [st EXCEPT ![name] = @ + 1]

\* ------------------------------------------------------------- Logger
\* class LogLevel(Enum): the values are the names
LogLevel == {"DEBUG", "INFO", "WARNING", "ERROR", "CRITICAL"}

\* Cache.logger is None
NoLogger == [kind |-> "none", min_level |-> "none"]

\* Logger(service_name, min_level)
Logger(min_level) == [kind |-> "Logger", min_level |-> min_level]

\* an injected logger whose debug and info raise
RaisingLogger == [kind |-> "raising", min_level |-> "none"]

\* what set_logger is given, and None for no call of it
Loggers == {NoLogger, Logger("INFO"), Logger("DEBUG"), RaisingLogger}

\* the place of a level's value among the values in the order of str.__lt__
StrRank(level) ==
    CASE level = "CRITICAL" -> 1
      [] level = "DEBUG" -> 2
      [] level = "ERROR" -> 3
      [] level = "INFO" -> 4
      [] OTHER -> 5

\* Logger._log: "if level.value < self.min_level.value: return"
Filtered(level, min_level) == StrRank(level) < StrRank(min_level)

\* BufferLogHandler.__init__: flush_size = 10
flush_size == 10

\* BufferLogHandler.emit on the buffer buf; flush hands the entries to the
\* handlers of the BufferLogHandler, of which there are none, and clears
emit(buf, level) ==
    LET appended == Append(buf, level)
    IN IF Len(appended) >= flush_size THEN << >> ELSE appended

\* Logger._log of the Logger lg with one BufferLogHandler, whose buffer is buf
_log(lg, level, buf) ==
    IF Filtered(level, lg.min_level) THEN buf ELSE emit(buf, level)

\* "self.logger.debug(...)" without the test "if self.logger": None has no debug
Logged_unguarded(r) == IF logger.kind = "Logger" THEN r ELSE [r EXCEPT !.ret = "raise"]

\* "if self.logger: self.logger.debug(...)" as the last statement before the
\* return of the result r: what the logger raises leaves the method in place of r.ret
Logged(r) == IF logger.kind = "raising" THEN [r EXCEPT !.ret = "raise"] ELSE r

\* --------------------------------------------------------- CacheEntry
\* the comparison the wrong way round
is_expired_reversed(e, t) == IF e.expires # None THEN t < e.expires[1] ELSE FALSE

\* CacheEntry.is_expired at clock reading t
is_expired(e, t) == IF e.expires # None THEN t > e.expires[1] ELSE FALSE

\* access that forgets to count
access_nocount(e, t) == [e EXCEPT !.last_accessed = t]

\* CacheEntry.access at clock reading t
access(e, t) == [e EXCEPT !.last_accessed = t, !.access_count = @ + 1]

\* CacheEntry(key=key, value=value, expires=expires): created and
\* last_accessed come from two calls of datetime.now
CacheEntry(key, value, expires, tc, ta) ==
    [key |-> key, value |-> value, created |-> tc, last_accessed |-> ta,
     access_count |-> 0, expires |-> expires]

\* -------------------------------------------------------------- Cache
\* FIFO ranking by last_accessed in place of created
EvictRank_fifo_accessed(p, e) ==
    CASE p = "lfu" -> e.access_count
      [] OTHER -> e.last_accessed

\* a TTL branch of its own that ranks by creation time
EvictRank_ttl_created(p, e) ==
    CASE p = "lru" -> e.last_accessed
      [] p = "lfu" -> e.access_count
      [] OTHER -> e.created

\* the key function min() is given when self.policy is p
EvictRank(p, e) ==
    CASE p = "lru" -> e.last_accessed
      [] p = "lfu" -> e.access_count
      [] p = "fifo" -> e.created
      [] OTHER -> e.last_accessed

\* min(self._entries.keys(), key=...): the first key, in dict order, whose
\* rank is minimal
key_to_evict(p, es) ==
    LET i == CHOOSE i \in 1..Len(es) :
                 /\ \A j \in 1..Len(es) : EvictRank(p, es[i]) <= EvictRank(p, es[j])
                 /\ \A j \in 1..(i - 1) : EvictRank(p, es[j]) > EvictRank(p, es[i])
    IN es[i].key

\* an eviction that is counted although nothing was stored
evict_counts_empty(p, c) ==
    IF Len(c.entries) = 0
    THEN [entries |-> c.entries, stats |-> IncStat(c.stats, "evictions")]
    ELSE [entries |-> DelKey(c.entries, key_to_evict(p, c.entries)),
          stats |-> IncStat(c.stats, "evictions")]

\* an eviction that is not counted
evict_uncounted(p, c) ==
    IF Len(c.entries) = 0
    THEN c
    ELSE [entries |-> DelKey(c.entries, key_to_evict(p, c.entries)),
          stats |-> c.stats]

\* Cache._evict on the cache state c = [entries, stats] when self.policy is p
evict(p, c) ==
    IF Len(c.entries) = 0
    THEN c
    ELSE [entries |-> DelKey(c.entries, key_to_evict(p, c.entries)),
          stats |-> IncStat(c.stats, "evictions")]

\* Cache.get; t1 is the reading is_expired takes, t2 the one access takes
get(c, key, default, t1, t2) ==
    IF HasKey(c.entries, key)
    THEN LET entry == EntryOf(c.entries, key)
         IN IF is_expired(entry, t1)
            THEN Logged([entries |-> DelKey(c.entries, key),
                         stats |-> IncStat(c.stats, "expirations"),
                         ret |-> default])
            ELSE Logged([entries |-> [c.entries EXCEPT ![IndexOf(c.entries, key)] =
                                         access(entry, t2)],
                         stats |-> IncStat(c.stats, "hits"),
                         ret |-> entry.value])
    ELSE Logged([entries |-> c.entries,
                 stats |-> IncStat(c.stats, "misses"),
                 ret |-> default])

\* the size test without "and key not in self._entries"
Overflows_anykey(c, key) == Len(c.entries) >= max_size

\* the size test with > in place of >=
Overflows_gt(c, key) == Len(c.entries) > max_size /\ ~HasKey(c.entries, key)

\* Cache.set, "Enforce max size": the condition under which _evict is called
Overflows(c, key) == Len(c.entries) >= max_size /\ ~HasKey(c.entries, key)

\* a negative TTL taken as 0
Expiration_clamped(ttl, t) ==
    LET ttl_seconds == PyOr(ttl, default_ttl)
    IN IF Truthy(ttl_seconds)
       THEN <<t + (IF ttl_seconds[1] < 0 THEN 0 ELSE ttl_seconds[1])>>
       ELSE None

\* Cache.set, "Calculate expiration", at clock reading t
Expiration(ttl, t) ==
    LET ttl_seconds == PyOr(ttl, default_ttl)
    IN IF Truthy(ttl_seconds) THEN <<t + ttl_seconds[1]>> ELSE None

\* an update that stores a new entry in place of the old one
Upsert_recreate(es, key, value, expires, t2, t3) ==
    IF HasKey(es, key)
    THEN [es EXCEPT ![IndexOf(es, key)] = CacheEntry(key, value, expires, t2, t3)]
    ELSE Append(es, CacheEntry(key, value, expires, t2, t3))

\* an update that leaves the stored expiry as it was
Upsert_keeps_expiry(es, key, value, expires, t2, t3) ==
    IF HasKey(es, key)
    THEN [es EXCEPT ![IndexOf(es, key)] = access([@ EXCEPT !.value = value], t2)]
    ELSE Append(es, CacheEntry(key, value, expires, t2, t3))

\* an update that leaves the stored value as it was
Upsert_stale(es, key, value, expires, t2, t3) ==
    IF HasKey(es, key)
    THEN [es EXCEPT ![IndexOf(es, key)] = access([@ EXCEPT !.expires = expires], t2)]
    ELSE Append(es, CacheEntry(key, value, expires, t2, t3))

\* Cache.set, "Create or update entry"; t2 is the reading of access (update) or of
\* created (insert), t3 the reading of last_accessed (insert)
Upsert(es, key, value, expires, t2, t3) ==
    IF HasKey(es, key)
    THEN [es EXCEPT ![IndexOf(es, key)] =
             access([@ EXCEPT !.value = value, !.expires = expires], t2)]
    ELSE Append(es, CacheEntry(key, value, expires, t2, t3))

\* Cache.set when self.policy is p; t1 is the reading the expiry is computed from.
\* _evict logs after it removed and counted: what its logger raises ends set there
set(p, c, key, value, ttl, t1, t2, t3) ==
    LET c1 == IF Overflows(c, key) THEN evict(p, c) ELSE c
    IN IF c1 # c /\ logger.kind = "raising"
       THEN [entries |-> c1.entries, stats |-> c1.stats, ret |-> "raise"]
       ELSE Logged([entries |-> Upsert(c1.entries, key, value, Expiration(ttl, t1), t2, t3),
                    stats |-> IncStat(c1.stats, "sets"),
                    ret |-> "None"])

\* "key in self._entries" in place of the get: nothing is counted or refreshed
contains_peek(c, key, t1, t2) ==
    [entries |-> c.entries, stats |-> c.stats,
     ret |-> IF HasKey(c.entries, key) /\ EntryOf(c.entries, key).value # "None"
             THEN "True" ELSE "False"]

\* Cache.__contains__: self.get(key, None) is not None
contains(c, key, t1, t2) ==
    LET r == get(c, key, "None", t1, t2)
    IN IF r.ret = "raise" THEN r
       ELSE [r EXCEPT !.ret = IF r.ret # "None" THEN "True" ELSE "False"]

\* Cache.__getitem__: the value self.get(key) returns, KeyError if it is None
getitem(c, key, t1, t2) ==
    LET r == get(c, key, "None", t1, t2)
    IN IF r.ret = "None" THEN [r EXCEPT !.ret = "KeyError"] ELSE r

\* "del self._entries[key]" without the test "if key in self._entries"
delete_unchecked(c, key) ==
    IF HasKey(c.entries, key)
    THEN Logged([entries |-> DelKey(c.entries, key), stats |-> c.stats, ret |-> "True"])
    ELSE [entries |-> c.entries, stats |-> c.stats, ret |-> "raise"]

\* Cache.delete
delete(c, key) ==
    IF HasKey(c.entries, key)
    THEN Logged([entries |-> DelKey(c.entries, key), stats |-> c.stats, ret |-> "True"])
    ELSE [entries |-> c.entries, stats |-> c.stats, ret |-> "False"]

\* a clear that counts and logs the entries and leaves them stored
clear_noop(c) == Logged([entries |-> c.entries, stats |-> c.stats, ret |-> "None"])

\* a clear that starts the statistics afresh as well
clear_resets(c) ==
    Logged([entries |-> << >>,
            stats |-> [hits |-> 0, misses |-> 0, sets |-> 0, evictions |-> 0,
                       expirations |-> 0],
            ret |-> "None"])

\* Cache.clear
clear(c) == Logged([entries |-> << >>, stats |-> c.stats, ret |-> "None"])

\* n / d rounded to the nearest integer, halves to the even one, as format
\* rounds a float
RoundHalfEven(n, d) ==
    LET q == n \div d
        r == n % d
    IN IF 2 * r > d THEN q + 1
       ELSE IF 2 * r < d THEN q
       ELSE IF q % 2 = 0 THEN q ELSE q + 1

\* hits / total without "* 100"
hit_rate_fraction(st) ==
    LET total_requests == st.hits + st.misses
    IN IF total_requests > 0 THEN RoundHalfEven(st.hits * 10, total_requests) ELSE 0

\* Cache.get_stats: f"{hit_rate:.1f}%" in tenths of a percent ("75.0%" is 750)
hit_rate(st) ==
    LET total_requests == st.hits + st.misses
    IN IF total_requests > 0 THEN RoundHalfEven(st.hits * 1000, total_requests) ELSE 0

\* Cache.get_stats: the "size" and "hit_rate" entries of the dict it returns
get_stats(c) == [entries |-> c.entries, stats |-> c.stats, ret |-> "stats",
                 size |-> Len(c.entries), hit_rate |-> hit_rate(c.stats)]

\* Cache.__init__
CacheInit ==
    /\ entries = << >>
    /\ stats = [hits |-> 0, misses |-> 0, sets |-> 0, evictions |-> 0, expirations |-> 0]

\* ------------------------------------------------- record of the calls
NoCall == [op |-> "none", key |-> "none", ttl |-> None, default |-> "none",
           ret |-> "none", size |-> 0, hit_rate |-> 0, removed |-> {}, found |-> FALSE,
           level |-> "none"]

\* val: the value the key was last set to, "absent" once it is deleted or found
\* expired, "cleared" once clear removes it (every key, stored or not, from the
\* clear to its next set or delete), "evicted" once _evict removes it; seq: the call that inserted
\* it; touches, touched: the successful gets and update-sets since, and the clock
\* reading of the last of them (of the insertion, if none)
NoHist == [val |-> "absent", seq |-> 0, touches |-> 0, touched |-> 0]

Gone(how) == [NoHist EXCEPT !.val = how]

\* the key is set and not since deleted, cleared, evicted or found expired
Live(h, key) == h[key].val \in StoredValues

LiveKeys == {k \in Keys : Live(hist, k)}

Threads == 1..NumThreads

NoOwner == 0

NoFrame == [op |-> "none", key |-> "none", value |-> "none", ttl |-> None,
            default |-> "none", t1 |-> 0, t2 |-> 0, expires |-> None,
            ret |-> "none", size |-> 0, level |-> "none", after |-> "none"]

WorkloadInit ==
    /\ now = 0
    /\ ops = 0
    /\ getCalls = 0
    /\ last = NoCall
    /\ hist = [k \in Keys |-> NoHist]
    /\ pc = [t \in Threads |-> "idle"]
    /\ owner = NoOwner
    /\ frame = [t \in Threads |-> NoFrame]
    /\ lin = [entries |-> << >>,
              stats |-> [hits |-> 0, misses |-> 0, sets |-> 0, evictions |-> 0,
                         expirations |-> 0],
              ret |-> "none", size |-> 0, got |-> "none", gotSize |-> 0]
    /\ log_owner = NoOwner
    /\ twin = [entries |-> << >>,
               stats |-> [hits |-> 0, misses |-> 0, sets |-> 0, evictions |-> 0,
                          expirations |-> 0],
               ret |-> "none"]
    /\ buffer = << >>

Init ==
    /\ max_size \in MaxSizes
    /\ policy \in EvictionPolicy
    /\ default_ttl \in DefaultTtls
    /\ logger = NoLogger
    /\ CacheInit
    /\ WorkloadInit
    /\ budget = MaxOps

InitEvict ==
    /\ max_size = 2
    /\ policy \in EvictionPolicy
    /\ default_ttl = None
    /\ logger = NoLogger
    /\ CacheInit
    /\ WorkloadInit
    /\ budget = MaxOpsEvict

cache == [entries |-> entries, stats |-> stats]

\* what set_logger and the constructor fix, and the buffer only a call of the
\* Logger with a BufferLogHandler writes
settings == <<max_size, policy, default_ttl, budget, logger, buffer>>

\* what no statement of the cache itself changes
config == <<settings, log_owner, twin>>

threadVars == <<pc, owner, frame, lin>>

\* ------------------------------------------------------------- actions
\* the clock advances
Tick ==
    /\ now < MaxTime
    /\ now' = now + 1
    /\ UNCHANGED <<entries, stats, config, ops, getCalls, last, hist, threadVars>>

\* cache.get(key, default)
DoGet(key, default) ==
    /\ ops < budget
    /\ LET r == get(cache, key, default, now, now)
           expired == HasKey(entries, key) /\ is_expired(EntryOf(entries, key), now)
           found == Live(hist, key) /\ ~expired
       IN /\ entries' = r.entries
          /\ stats' = r.stats
          /\ last' = [NoCall EXCEPT !.op = "get", !.key = key, !.default = default,
                                    !.ret = r.ret, !.found = found]
          /\ hist' = [hist EXCEPT ![key] =
                         IF expired THEN Gone("absent")
                         ELSE IF found
                              THEN [@ EXCEPT !.touches = @ + 1, !.touched = now]
                              ELSE @]
    /\ ops' = ops + 1
    /\ getCalls' = getCalls + 1
    /\ UNCHANGED <<config, now, threadVars>>

\* cache.set(key, value, ttl)
DoSet(key, value, ttl) ==
    /\ ops < budget
    /\ LET r == set(policy, cache, key, value, ttl, now, now, now)
           removed == StoredKeys(entries) \ StoredKeys(r.entries)
       IN /\ entries' = r.entries
          /\ stats' = r.stats
          /\ last' = [NoCall EXCEPT !.op = "set", !.key = key, !.ttl = ttl,
                                    !.ret = r.ret, !.removed = removed,
                                    !.found = Live(hist, key)]
          /\ hist' = [k \in Keys |->
                         IF k = key
                         THEN IF r.stats.sets = stats.sets
                              THEN hist[k]
                              ELSE IF Live(hist, key)
                                   THEN [hist[k] EXCEPT !.val = value, !.touches = @ + 1,
                                                        !.touched = now]
                                   ELSE [val |-> value, seq |-> ops + 1, touches |-> 0,
                                         touched |-> now]
                         ELSE IF k \in removed THEN Gone("evicted") ELSE hist[k]]
    /\ ops' = ops + 1
    /\ UNCHANGED <<config, now, getCalls, threadVars>>

\* cache.delete(key)
DoDelete(key) ==
    /\ ops < budget
    /\ LET r == delete(cache, key)
       IN /\ entries' = r.entries
          /\ stats' = r.stats
          /\ last' = [NoCall EXCEPT !.op = "delete", !.key = key, !.ret = r.ret,
                                    !.found = Live(hist, key)]
    /\ hist' = [hist EXCEPT ![key] = IF @.val = "cleared" THEN @ ELSE Gone("absent")]
    /\ ops' = ops + 1
    /\ UNCHANGED <<config, now, getCalls, threadVars>>

\* cache.clear()
DoClear ==
    /\ ops < budget
    /\ LET r == clear(cache)
       IN /\ entries' = r.entries
          /\ stats' = r.stats
          /\ last' = [NoCall EXCEPT !.op = "clear", !.ret = r.ret]
    /\ hist' = [k \in Keys |-> Gone("cleared")]
    /\ ops' = ops + 1
    /\ UNCHANGED <<config, now, getCalls, threadVars>>

\* cache.get_stats()
DoGetStats ==
    /\ ops < budget
    /\ LET r == get_stats(cache)
       IN /\ entries' = r.entries
          /\ stats' = r.stats
          /\ last' = [NoCall EXCEPT !.op = "get_stats", !.ret = r.ret, !.size = r.size,
                                    !.hit_rate = r.hit_rate]
    /\ ops' = ops + 1
    /\ UNCHANGED <<config, now, getCalls, hist, threadVars>>

Next ==
    \/ Tick
    \/ \E key \in FewKeys, default \in Defaults : DoGet(key, default)
    \/ \E key \in FewKeys, value \in Values, ttl \in Ttls : DoSet(key, value, ttl)
    \/ \E key \in FewKeys : DoDelete(key)
    \/ DoClear
    \/ DoGetStats

Spec == Init /\ [][Next]_vars

NextEvict ==
    \/ Tick
    \/ \E key \in Keys, default \in Defaults : DoGet(key, default)
    \/ \E key \in Keys : DoSet(key, "v1", None)
    \/ \E key \in Keys : DoDelete(key)

SpecEvict == InitEvict /\ [][NextEvict]_vars

\* --------------------------------------------------- an attached logger
\* Cache(max_size=1), then set_logger or not
InitLogger ==
    /\ max_size = 1
    /\ policy = "lru"
    /\ default_ttl = None
    /\ logger \in Loggers
    /\ CacheInit
    /\ WorkloadInit
    /\ budget = MaxOps

SpecLogger == InitLogger /\ [][Next]_vars

\* ------------------------------------------------------- any max_size
\* Cache(max_size=n): __init__ stores the argument as it is
InitCtor ==
    /\ max_size \in MaxSizeArgs
    /\ policy = "lru"
    /\ default_ttl = None
    /\ logger = NoLogger
    /\ CacheInit
    /\ WorkloadInit
    /\ budget = MaxOps

SpecCtor == InitCtor /\ [][Next]_vars

\* ------------------------------------------------------------ any TTL
\* Cache(max_size=1, default_ttl=d)
InitTtl ==
    /\ max_size = 1
    /\ policy = "lru"
    /\ default_ttl \in DefaultTtls
    /\ logger = NoLogger
    /\ CacheInit
    /\ WorkloadInit
    /\ budget = MaxOps

NextTtl ==
    \/ Tick
    \/ \E key \in FewKeys, default \in Defaults : DoGet(key, default)
    \/ \E key \in FewKeys, ttl \in TtlArgs : DoSet(key, "v1", ttl)

SpecTtl == InitTtl /\ [][NextTtl]_vars

\* ------------------------------------------------ membership and indexing
\* key in cache (which = "contains") and cache[key] (which = "getitem")
DoIndex(which, key) ==
    /\ ops < budget
    /\ LET r == IF which = "contains"
                THEN contains(cache, key, now, now)
                ELSE getitem(cache, key, now, now)
           expired == HasKey(entries, key) /\ is_expired(EntryOf(entries, key), now)
           found == Live(hist, key) /\ ~expired
       IN /\ entries' = r.entries
          /\ stats' = r.stats
          /\ last' = [NoCall EXCEPT !.op = which, !.key = key, !.default = "None",
                                    !.ret = r.ret, !.found = found]
          /\ hist' = [hist EXCEPT ![key] =
                         IF expired THEN Gone("absent")
                         ELSE IF found
                              THEN [@ EXCEPT !.touches = @ + 1, !.touched = now]
                              ELSE @]
    /\ ops' = ops + 1
    /\ UNCHANGED <<config, now, getCalls, threadVars>>

DoContains(key) == DoIndex("contains", key)

DoGetItem(key) == DoIndex("getitem", key)

\* Cache(max_size=2, policy=p, default_ttl=d), p one of the two policies that
\* rank by accesses
InitIndex ==
    /\ max_size = 2
    /\ policy \in {"lru", "lfu"}
    /\ default_ttl \in DefaultTtls
    /\ logger = NoLogger
    /\ CacheInit
    /\ WorkloadInit
    /\ budget = MaxOpsEvict

NextIndex ==
    \/ Tick
    \/ \E key \in Keys, value \in {"v1", "None"} : DoSet(key, value, None)
    \/ \E key \in FewKeys : DoContains(key)
    \/ \E key \in FewKeys : DoGetItem(key)

SpecIndex == InitIndex /\ [][NextIndex]_vars

\* ------------------------------------------------------- Logger levels
\* logger.debug / info / warning / error / critical (message)
DoLog(level) ==
    /\ ops < budget
    /\ logger.kind = "Logger"
    /\ buffer' = _log(logger, level, buffer)
    /\ last' = [NoCall EXCEPT !.op = "log", !.level = level, !.ret = "None"]
    /\ ops' = ops + 1
    /\ UNCHANGED <<entries, stats, max_size, policy, default_ttl, budget, logger,
                   log_owner, twin, now, getCalls, hist, threadVars>>

\* Logger(service_name, min_level).add_handler(BufferLogHandler())
InitLevels ==
    /\ max_size = 1
    /\ policy = "lru"
    /\ default_ttl = None
    /\ logger \in {Logger(min_level) : min_level \in LogLevel}
    /\ CacheInit
    /\ WorkloadInit
    /\ budget = MaxOps

NextLevels == \E level \in LogLevel : DoLog(level)

SpecLevels == InitLevels /\ [][NextLevels]_vars

\* ------------------------------------------- expiry and overflow together
\* Cache(max_size=2, policy=p)
InitExpire ==
    /\ max_size = 2
    /\ policy \in EvictionPolicy
    /\ default_ttl = None
    /\ logger = NoLogger
    /\ CacheInit
    /\ WorkloadInit
    /\ budget = MaxOps

NextExpire ==
    \/ Tick
    \/ \E key \in Keys, default \in Defaults : DoGet(key, default)
    \/ \E key \in Keys, ttl \in {None, <<1>>} : DoSet(key, "v1", ttl)

SpecExpire == InitExpire /\ [][NextExpire]_vars

\* ------------------------------------------------------ hits and misses
\* Cache(max_size=1)
InitStats ==
    /\ max_size = 1
    /\ policy = "lru"
    /\ default_ttl = None
    /\ logger = NoLogger
    /\ CacheInit
    /\ WorkloadInit
    /\ budget = MaxOpsStats

NextStats ==
    \/ \E key \in FewKeys, default \in Defaults : DoGet(key, default)
    \/ \E key \in FewKeys : DoSet(key, "v1", None)
    \/ \E key \in FewKeys : DoDelete(key)
    \/ DoGetStats

SpecStats == InitStats /\ [][NextStats]_vars

\* ------------------------------------------------- two caches in step
\* the cache of policy LRU
TwinCache == [entries |-> twin.entries, stats |-> twin.stats]

\* one call made on both caches: r is what it gives on this cache, q on the twin
Lockstep(op, key, r, q) ==
    /\ ops < budget
    /\ entries' = r.entries
    /\ stats' = r.stats
    /\ last' = [NoCall EXCEPT !.op = op, !.key = key, !.ret = r.ret]
    /\ twin' = [entries |-> q.entries, stats |-> q.stats, ret |-> q.ret]
    /\ ops' = ops + 1
    /\ UNCHANGED <<settings, log_owner, now, getCalls, hist, threadVars>>

\* get(key, default) on both
TwinGet(key, default) ==
    Lockstep("get", key, get(cache, key, default, now, now),
                         get(TwinCache, key, default, now, now))

\* set(key, value, ttl) on both
TwinSet(key, value, ttl) ==
    Lockstep("set", key, set(policy, cache, key, value, ttl, now, now, now),
                         set("lru", TwinCache, key, value, ttl, now, now, now))

\* delete(key) on both
TwinDelete(key) == Lockstep("delete", key, delete(cache, key), delete(TwinCache, key))

\* clear() on both
TwinClear == Lockstep("clear", "none", clear(cache), clear(TwinCache))

\* Cache(max_size=2, policy=EvictionPolicy.TTL, default_ttl=d) and
\* Cache(max_size=2, policy=EvictionPolicy.LRU, default_ttl=d)
InitTwin ==
    /\ max_size = 2
    /\ policy = "ttl"
    /\ default_ttl \in DefaultTtls
    /\ logger = NoLogger
    /\ CacheInit
    /\ WorkloadInit
    /\ budget = MaxOpsTwin

NextTwin ==
    \/ Tick
    \/ \E key \in Keys, default \in Defaults : TwinGet(key, default)
    \/ \E key \in Keys : TwinSet(key, "v1", None)
    \/ \E key \in Keys : TwinDelete(key)
    \/ TwinClear

SpecTwin == InitTwin /\ [][NextTwin]_vars

\* ------------------------------------------------------------ threads
\* each method is "with self._lock:" around its statements

\* entering the method body without waiting for the lock
LockFree_ignored(t) == TRUE

\* "with self._lock": the RLock is free, or this thread holds it already
LockFree(t) == owner = NoOwner \/ owner = t

FirstStep(op) ==
    CASE op = "get" -> "get_lookup"
      [] op = "set" -> "set_check"
      [] op = "delete" -> "delete_do"
      [] op = "clear" -> "clear_do"
      [] OTHER -> "stats_do"

Goto(t, label) == pc' = [pc EXCEPT ![t] = label]

At(t, label) == pc[t] = label

\* "if self.logger: self.logger.debug(...)" (info in clear) as the next statement
\* of thread t, whose frame is now f, and the statement at label after it
CallLogger(t, f, level, label) ==
    IF logger.kind = "none"
    THEN /\ frame' = [frame EXCEPT ![t] = f]
         /\ Goto(t, label)
    ELSE /\ frame' = [frame EXCEPT ![t] = [f EXCEPT !.level = level, !.after = label]]
         /\ Goto(t, "log")

Begin(t, f) ==
    /\ pc[t] = "idle"
    /\ ops < budget
    /\ ops' = ops + 1
    /\ frame' = [frame EXCEPT ![t] = f]
    /\ Goto(t, "wait")
    /\ UNCHANGED <<entries, stats, config, now, getCalls, last, hist, owner, lin>>

\* a thread calls cache.get(key, default)
CallGet(t, key, default) ==
    Begin(t, [NoFrame EXCEPT !.op = "get", !.key = key, !.default = default])

\* a thread calls cache.set(key, value, ttl)
CallSet(t, key, value, ttl) ==
    Begin(t, [NoFrame EXCEPT !.op = "set", !.key = key, !.value = value, !.ttl = ttl])

\* a thread calls cache.delete(key)
CallDelete(t, key) == Begin(t, [NoFrame EXCEPT !.op = "delete", !.key = key])

\* a thread calls cache.clear()
CallClear(t) == Begin(t, [NoFrame EXCEPT !.op = "clear"])

\* a thread calls cache.get_stats()
CallGetStats(t) == Begin(t, [NoFrame EXCEPT !.op = "get_stats"])

\* with self._lock: __enter__
Acquire(t) ==
    /\ pc[t] = "wait"
    /\ LockFree(t)
    /\ owner' = t
    /\ Goto(t, FirstStep(frame[t].op))
    /\ UNCHANGED <<entries, stats, config, now, ops, getCalls, last, hist, frame, lin>>

\* get: "if key in self._entries", "entry = ...", "if entry.is_expired"
GetLookup(t) ==
    /\ At(t, "get_lookup")
    /\ LET key == frame[t].key
       IN IF HasKey(entries, key)
          THEN /\ frame' = [frame EXCEPT ![t].t1 = now,
                                         ![t].value = EntryOf(entries, key).value]
               /\ Goto(t, IF is_expired(EntryOf(entries, key), now)
                          THEN "get_del" ELSE "get_access")
          ELSE /\ frame' = frame
               /\ Goto(t, "get_miss")
    /\ UNCHANGED <<entries, stats, config, now, ops, getCalls, last, hist, owner, lin>>

\* get: "del self._entries[key]"
GetDel(t) ==
    /\ At(t, "get_del")
    /\ entries' = DelKey(entries, frame[t].key)
    /\ Goto(t, "get_expired")
    /\ UNCHANGED <<stats, config, now, ops, getCalls, last, hist, owner, frame, lin>>

\* get: "self._stats["expirations"] += 1", "return default"
GetExpired(t) ==
    /\ At(t, "get_expired")
    /\ stats' = IncStat(stats, "expirations")
    /\ CallLogger(t, [frame[t] EXCEPT !.ret = frame[t].default], "DEBUG", "release")
    /\ UNCHANGED <<entries, config, now, ops, getCalls, last, hist, owner, lin>>

\* get: "entry.access()"
GetAccess(t) ==
    /\ At(t, "get_access")
    /\ LET key == frame[t].key
       IN entries' = IF HasKey(entries, key)
                     THEN [entries EXCEPT ![IndexOf(entries, key)] = access(@, now)]
                     ELSE entries
    /\ frame' = [frame EXCEPT ![t].t2 = now]
    /\ Goto(t, "get_hit")
    /\ UNCHANGED <<stats, config, now, ops, getCalls, last, hist, owner, lin>>

\* get: "self._stats["hits"] += 1", "return entry.value"
GetHit(t) ==
    /\ At(t, "get_hit")
    /\ stats' = IncStat(stats, "hits")
    /\ LET key == frame[t].key
       IN CallLogger(t, [frame[t] EXCEPT !.ret = IF HasKey(entries, key)
                                                 THEN EntryOf(entries, key).value
                                                 ELSE frame[t].value],
                     "DEBUG", "release")
    /\ UNCHANGED <<entries, config, now, ops, getCalls, last, hist, owner, lin>>

\* get: "self._stats["misses"] += 1", "return default"
GetMiss(t) ==
    /\ At(t, "get_miss")
    /\ stats' = IncStat(stats, "misses")
    /\ CallLogger(t, [frame[t] EXCEPT !.ret = frame[t].default], "DEBUG", "release")
    /\ UNCHANGED <<entries, config, now, ops, getCalls, last, hist, owner, lin>>

\* set: "if len(self._entries) >= self.max_size and key not in self._entries"
SetCheck(t) ==
    /\ At(t, "set_check")
    /\ Goto(t, IF Overflows(cache, frame[t].key) THEN "evict_del" ELSE "set_expiry")
    /\ UNCHANGED <<entries, stats, config, now, ops, getCalls, last, hist, owner, frame, lin>>

\* _evict: "if not self._entries: return", "del self._entries[key_to_evict]"
EvictDel(t) ==
    /\ At(t, "evict_del")
    /\ IF Len(entries) = 0
       THEN /\ entries' = entries
            /\ Goto(t, "set_expiry")
       ELSE /\ entries' = DelKey(entries, key_to_evict(policy, entries))
            /\ Goto(t, "evict_count")
    /\ UNCHANGED <<stats, config, now, ops, getCalls, last, hist, owner, frame, lin>>

\* _evict: "self._stats["evictions"] += 1"
EvictCount(t) ==
    /\ At(t, "evict_count")
    /\ stats' = IncStat(stats, "evictions")
    /\ CallLogger(t, frame[t], "DEBUG", "set_expiry")
    /\ UNCHANGED <<entries, config, now, ops, getCalls, last, hist, owner, lin>>

\* set: "Calculate expiration"
SetExpiry(t) ==
    /\ At(t, "set_expiry")
    /\ frame' = [frame EXCEPT ![t].t1 = now, ![t].expires = Expiration(frame[t].ttl, now)]
    /\ Goto(t, "set_upsert")
    /\ UNCHANGED <<entries, stats, config, now, ops, getCalls, last, hist, owner, lin>>

\* set: "Create or update entry"
SetUpsert(t) ==
    /\ At(t, "set_upsert")
    /\ entries' = Upsert(entries, frame[t].key, frame[t].value, frame[t].expires, now, now)
    /\ frame' = [frame EXCEPT ![t].t2 = now]
    /\ Goto(t, "set_count")
    /\ UNCHANGED <<stats, config, now, ops, getCalls, last, hist, owner, lin>>

\* set: "self._stats["sets"] += 1"
SetCount(t) ==
    /\ At(t, "set_count")
    /\ stats' = IncStat(stats, "sets")
    /\ CallLogger(t, [frame[t] EXCEPT !.ret = "None"], "DEBUG", "release")
    /\ UNCHANGED <<entries, config, now, ops, getCalls, last, hist, owner, lin>>

\* delete: the body under the lock, up to the logger
DeleteDo(t) ==
    /\ At(t, "delete_do")
    /\ IF HasKey(entries, frame[t].key)
       THEN /\ entries' = DelKey(entries, frame[t].key)
            /\ CallLogger(t, [frame[t] EXCEPT !.ret = "True"], "DEBUG", "release")
       ELSE /\ entries' = entries
            /\ frame' = [frame EXCEPT ![t].ret = "False"]
            /\ Goto(t, "release")
    /\ UNCHANGED <<stats, config, now, ops, getCalls, last, hist, owner, lin>>

\* clear: the body under the lock, up to the logger
ClearDo(t) ==
    /\ At(t, "clear_do")
    /\ entries' = << >>
    /\ CallLogger(t, [frame[t] EXCEPT !.ret = "None"], "INFO", "release")
    /\ UNCHANGED <<stats, config, now, ops, getCalls, last, hist, owner, lin>>

\* get_stats: the body under the lock
StatsDo(t) ==
    /\ At(t, "stats_do")
    /\ LET r == get_stats(cache)
       IN frame' = [frame EXCEPT ![t].ret = r.ret, ![t].size = r.size]
    /\ Goto(t, "release")
    /\ UNCHANGED <<entries, stats, config, now, ops, getCalls, last, hist, owner, lin>>

\* the method f run in one piece on the cache c, with the clock readings f took
RunWhole(c, f) ==
    CASE f.op = "get" -> get(c, f.key, f.default, f.t1, f.t2)
      [] f.op = "set" -> set(policy, c, f.key, f.value, f.ttl, f.t1, f.t2, f.t2)
      [] f.op = "delete" -> delete(c, f.key)
      [] f.op = "clear" -> clear(c)
      [] OTHER -> get_stats(c)

\* with self._lock: __exit__, and the method returns
Release(t) ==
    /\ At(t, "release")
    /\ owner' = NoOwner
    /\ Goto(t, "idle")
    /\ LET r == RunWhole([entries |-> lin.entries, stats |-> lin.stats], frame[t])
       IN lin' = [entries |-> r.entries, stats |-> r.stats, ret |-> r.ret,
                  size |-> IF frame[t].op = "get_stats" THEN r.size ELSE 0,
                  got |-> frame[t].ret, gotSize |-> frame[t].size]
    /\ frame' = [frame EXCEPT ![t] = NoFrame]
    /\ UNCHANGED <<entries, stats, config, now, ops, getCalls, last, hist>>

\* a handler fails and the Logger's lock stays held
LogUnlock_kept(t) == t

\* Logger._log: "with self._lock" __exit__
LogUnlock(t) == NoOwner

\* a thread calls logger.info(...) itself, not through the cache
CallLog(t) ==
    /\ pc[t] = "idle"
    /\ ops < budget
    /\ logger.kind = "Logger"
    /\ ops' = ops + 1
    /\ frame' = [frame EXCEPT ![t] = [NoFrame EXCEPT !.op = "log", !.level = "INFO",
                                                     !.after = "log_return"]]
    /\ Goto(t, "log")
    /\ UNCHANGED <<entries, stats, config, now, getCalls, last, hist, owner, lin>>

\* Logger.debug / info, Logger._log: "if level.value < self.min_level.value: return";
\* what an injected logger raises leaves the "with self._lock" of the cache
LogEnter(t) ==
    /\ At(t, "log")
    /\ IF logger.kind = "raising"
       THEN /\ frame' = [frame EXCEPT ![t].ret = "raise"]
            /\ Goto(t, "release")
       ELSE /\ frame' = frame
            /\ Goto(t, IF Filtered(frame[t].level, logger.min_level)
                       THEN frame[t].after ELSE "log_wait")
    /\ UNCHANGED <<entries, stats, config, now, ops, getCalls, last, hist, owner, lin>>

\* Logger._log: "with self._lock" __enter__; threading.Lock is not reentrant
LogAcquire(t) ==
    /\ At(t, "log_wait")
    /\ log_owner = NoOwner
    /\ log_owner' = t
    /\ Goto(t, "log_emit")
    /\ UNCHANGED <<entries, stats, settings, twin, now, ops, getCalls, last, hist,
                   owner, frame, lin>>

\* Logger._log: the handlers emit, each inside try / except, and the lock is released
LogEmit(t) ==
    /\ At(t, "log_emit")
    /\ log_owner' = LogUnlock(t)
    /\ Goto(t, frame[t].after)
    /\ UNCHANGED <<entries, stats, settings, twin, now, ops, getCalls, last, hist,
                   owner, frame, lin>>

\* logger.info(...) returns to the thread that called it
LogReturn(t) ==
    /\ At(t, "log_return")
    /\ frame' = [frame EXCEPT ![t] = NoFrame]
    /\ Goto(t, "idle")
    /\ UNCHANGED <<entries, stats, config, now, ops, getCalls, last, hist, owner, lin>>

\* the statements of the call thread t is in
Run(t) ==
    \/ Acquire(t)
    \/ GetLookup(t)
    \/ GetDel(t)
    \/ GetExpired(t)
    \/ GetAccess(t)
    \/ GetHit(t)
    \/ GetMiss(t)
    \/ SetCheck(t)
    \/ EvictDel(t)
    \/ EvictCount(t)
    \/ SetExpiry(t)
    \/ SetUpsert(t)
    \/ SetCount(t)
    \/ DeleteDo(t)
    \/ ClearDo(t)
    \/ StatsDo(t)
    \/ LogEnter(t)
    \/ LogAcquire(t)
    \/ LogEmit(t)
    \/ LogReturn(t)
    \/ Release(t)

\* Cache(max_size=1), then set_logger or not
InitLocks ==
    /\ max_size = 1
    /\ policy = "lru"
    /\ default_ttl = None
    /\ logger \in Loggers
    /\ CacheInit
    /\ WorkloadInit
    /\ budget = MaxCalls

\* the clock stands still: a set with ttl -1 stores an entry that has expired
NextLocks ==
    \/ \E t \in Threads, key \in FewKeys, default \in Defaults : CallGet(t, key, default)
    \/ \E t \in Threads, key \in FewKeys, ttl \in {None, <<-1>>} : CallSet(t, key, "v1", ttl)
    \/ \E t \in Threads, key \in FewKeys : CallDelete(t, key)
    \/ \E t \in Threads : CallClear(t)
    \/ \E t \in Threads : CallGetStats(t)
    \/ \E t \in Threads : CallLog(t)
    \/ \E t \in Threads : Run(t)

\* the scheduler runs every thread that can take a step
SpecLocks == InitLocks /\ [][NextLocks]_vars /\ \A t \in Threads : WF_vars(Run(t))

InitThreads ==
    /\ max_size \in MaxSizes
    /\ policy = "lru"
    /\ default_ttl = None
    /\ logger = NoLogger
    /\ CacheInit
    /\ WorkloadInit
    /\ budget = MaxCalls

NextThreads ==
    \/ Tick
    \/ \E t \in Threads, key \in FewKeys, default \in Defaults : CallGet(t, key, default)
    \/ \E t \in Threads, key \in FewKeys, value \in Values, ttl \in {None, <<1>>} :
           CallSet(t, key, value, ttl)
    \/ \E t \in Threads, key \in FewKeys : CallDelete(t, key)
    \/ \E t \in Threads : CallClear(t)
    \/ \E t \in Threads : CallGetStats(t)
    \/ \E t \in Threads : Acquire(t)
    \/ \E t \in Threads : GetLookup(t)
    \/ \E t \in Threads : GetDel(t)
    \/ \E t \in Threads : GetExpired(t)
    \/ \E t \in Threads : GetAccess(t)
    \/ \E t \in Threads : GetHit(t)
    \/ \E t \in Threads : GetMiss(t)
    \/ \E t \in Threads : SetCheck(t)
    \/ \E t \in Threads : EvictDel(t)
    \/ \E t \in Threads : EvictCount(t)
    \/ \E t \in Threads : SetExpiry(t)
    \/ \E t \in Threads : SetUpsert(t)
    \/ \E t \in Threads : SetCount(t)
    \/ \E t \in Threads : DeleteDo(t)
    \/ \E t \in Threads : ClearDo(t)
    \/ \E t \in Threads : StatsDo(t)
    \/ \E t \in Threads : Release(t)

SpecThreads == InitThreads /\ [][NextThreads]_vars

\* ============================================================== claims
\* a set overflowed and _evict removed an entry in this step
EvictStep == stats'.evictions # stats.evictions

\* the keys that are live and whose expiry, if any, has not passed
UnexpiredLiveKeys ==
    {k \in LiveKeys : ~(HasKey(entries, k) /\ is_expired(EntryOf(entries, k), now))}

\* C1: with max_size >= 1 the number of stored entries never exceeds max_size,
\* under every policy and after every sequence of set, get, delete and clear.
CapacityInvariant == max_size >= 1 => Len(entries) <= max_size

\* a set has overflowed a full cache, evicted, and left it full
CapacityWitness ==
    /\ max_size >= 1
    /\ last.op = "set"
    /\ last.removed # {}
    /\ stats.evictions > 0
    /\ Len(entries) = max_size

\* C2: hits + misses equals the number of get calls made so far.
HitMissAccounting == stats.hits + stats.misses = getCalls

\* C3: a get of a key that was set, and has not since expired or been evicted,
\* deleted or cleared, returns the value of the latest set of that key.
RoundTrip == (last.op = "get" /\ last.found) => last.ret = hist[last.key].val

\* a get returns the value a second set of the key wrote over the first
RoundTripWitness ==
    /\ last.op = "get"
    /\ last.found
    /\ last.ret = "v2"
    /\ stats.sets = 2
    /\ stats.hits = 1
    /\ hist[last.key].seq = 1

\* the threads that are inside a method body
Inside == {t \in Threads : pc[t] \notin {"idle", "wait"}}

\* C4: get, set, delete, clear and get_stats run one at a time under the lock:
\* whatever the interleaving of the threads, each call returns what it returns,
\* and leaves the entries and counters it leaves, when the calls are run whole,
\* one after another, in the order in which they returned.
Linearizable ==
    /\ Cardinality(Inside) <= 1
    /\ Inside \subseteq {owner}
    /\ lin.got = lin.ret
    /\ lin.gotSize = lin.size
    /\ owner = NoOwner => (entries = lin.entries /\ stats = lin.stats)

\* a get waits for the lock while a set of the same key is inside its body
LinearizableWitness ==
    \E t, u \in Threads :
        /\ t # u
        /\ owner = t
        /\ pc[t] = "set_upsert"
        /\ pc[u] = "wait"
        /\ frame[u].op = "get"
        /\ frame[u].key = frame[t].key

\* C5: the size the cache reports equals the number of keys that are live: set
\* and not since deleted, evicted or expired.
SizeCountsLiveKeys == get_stats(cache).size = Cardinality(UnexpiredLiveKeys)

\* C6: on a cache with no default TTL, a get that directly follows set(k, v, ttl=0)
\* returns the default and raises expirations by exactly 1.
ZeroTtlExpires ==
    [][(/\ default_ttl = None
        /\ last.op = "set"
        /\ last.ttl = <<0>>
        /\ ops' = ops + 1
        /\ last'.op = "get"
        /\ last'.key = last.key)
       => (/\ last'.ret = last'.default
           /\ stats'.expirations = stats.expirations + 1)]_vars

\* C7: with max_size = 0 the cache is unbounded: evictions stays 0 and every key
\* that was set and not deleted, cleared or found expired is stored.
UnboundedMode ==
    max_size = 0 =>
        /\ stats.evictions = 0
        /\ {k \in Keys : hist[k].val \in Values \cup {"evicted"}} \subseteq StoredKeys(entries)

\* the calls so far were set A, set B, then zero or more successful gets of A,
\* on a cache of max_size 2, and this step is set C
InsertCAfterAB ==
    /\ max_size = 2
    /\ hist["A"].seq = 1
    /\ hist["B"].seq = 2
    /\ stats.sets = 2
    /\ ops = 2 + getCalls
    /\ getCalls = hist["A"].touches
    /\ ops' = ops + 1
    /\ last'.op = "set"
    /\ last'.key = "C"

\* C8: under LRU the entry removed on overflow is the one with the
\* oldest last_accessed, refreshed by every successful get and update-set; set A,
\* set B, get A, set C evicts B.
LRUEviction ==
    [][/\ (policy = "lru" /\ EvictStep) =>
              \E v \in LiveKeys :
                  /\ last'.removed = {v}
                  /\ \A k \in LiveKeys : hist[v].touched <= hist[k].touched
       /\ (policy = "lru" /\ InsertCAfterAB /\ getCalls = 1) => last'.removed = {"B"}]_vars

\* C9: under FIFO the entry removed on overflow is the one inserted earliest among
\* the stored entries, whatever gets and update-sets it had since; set A, set B,
\* any reads of A, set C evicts A.
FIFOEviction ==
    [][/\ (policy = "fifo" /\ EvictStep) =>
              \E v \in LiveKeys :
                  /\ last'.removed = {v}
                  /\ \A k \in LiveKeys : hist[v].seq <= hist[k].seq
       /\ (policy = "fifo" /\ InsertCAfterAB) => last'.removed = {"A"}]_vars

\* set A, set B, get A, set C has evicted A under FIFO although A was read later than B
FIFOWitness ==
    /\ policy = "fifo"
    /\ ops = 4
    /\ getCalls = 1
    /\ stats.hits = 1
    /\ stats.sets = 3
    /\ last.op = "set"
    /\ last.key = "C"
    /\ last.removed = {"A"}
    /\ hist["B"].seq = 2
    /\ entries[1].key = "B"
    /\ entries[1].last_accessed = 0
    /\ now > 0

\* C10: under LFU the entry removed on overflow is one with the smallest
\* access_count among the stored entries, and access_count is the number of
\* successful gets and update-sets of the entry since it was inserted.
LFUEviction ==
    [][/\ \A i \in 1..Len(entries) :
              entries[i].access_count = hist[entries[i].key].touches
       /\ (policy = "lfu" /\ EvictStep) =>
              \E v \in LiveKeys :
                  /\ last'.removed = {v}
                  /\ \A k \in LiveKeys : hist[v].touches <= hist[k].touches]_vars

\* under LFU an overflow has evicted the untouched second key and kept the first,
\* which had been touched
LFUWitness ==
    /\ policy = "lfu"
    /\ last.op = "set"
    /\ last.removed = {"B"}
    /\ hist["A"].seq = 1
    /\ hist["A"].touches >= 1
    /\ entries[1].key = "A"
    /\ entries[1].access_count >= 1

UpdateDoesNotEvict ==
    [][(/\ ops' = ops + 1
        /\ last'.op = "set"
        /\ HasKey(entries, last'.key)
        /\ Len(entries) = max_size)
       => (/\ StoredKeys(entries') = StoredKeys(entries)
           /\ Len(entries') = Len(entries)
           /\ stats'.evictions = stats.evictions)]_vars

\* a full cache of two entries took a set of one of its keys and kept both
UpdateWitness ==
    /\ max_size = 2
    /\ last.op = "set"
    /\ last.found
    /\ last.removed = {}
    /\ stats.sets = 3
    /\ stats.evictions = 0
    /\ Len(entries) = 2
    /\ EntryOf(entries, last.key).access_count = 1

\* C13: delete of a key that is not stored returns False, raises nothing and
\* leaves entries and counters as they were; delete of a stored key returns True
\* and removes it, so that a second delete is the first case and a get that
\* follows returns the caller's default.
IdempotentDelete ==
    [][/\ (/\ ops' = ops + 1
           /\ last'.op = "delete"
           /\ ~HasKey(entries, last'.key))
          => (/\ last'.ret = "False"
              /\ entries' = entries
              /\ stats' = stats)
       /\ (/\ ops' = ops + 1
           /\ last'.op = "delete"
           /\ HasKey(entries, last'.key))
          => (/\ last'.ret = "True"
              /\ ~HasKey(entries', last'.key))
       /\ (/\ last.op = "delete"
           /\ last.ret = "True"
           /\ ops' = ops + 1
           /\ last'.op = "get"
           /\ last'.key = last.key)
          => last'.ret = last'.default]_vars

\* a delete removed the one key that was set, and the delete that followed it
\* found nothing
DeleteWitness ==
    /\ last.op = "delete"
    /\ last.ret = "False"
    /\ ~last.found
    /\ stats.sets = 1
    /\ ops = 3
    /\ Len(entries) = 0
    /\ now = 0
    /\ \A k \in Keys : hist[k].val = "absent"

\* since the last clear no set was called
NoSetSinceClear == \A k \in Keys : hist[k].val = "cleared"

\* C15: clear removes every entry in one step, so that the size is 0 and every get
\* from then to the next set misses, and leaves hits, misses, sets, evictions and
\* expirations as they were.
ClearEmpties ==
    [][/\ (ops' = ops + 1 /\ last'.op = "clear")
          => (/\ entries' = << >>
              /\ get_stats([entries |-> entries', stats |-> stats']).size = 0
              /\ stats' = stats
              /\ last'.ret = "None")
       /\ (NoSetSinceClear /\ ops' = ops + 1 /\ last'.op = "get")
          => (/\ last'.ret = last'.default
              /\ entries' = << >>
              /\ stats' = IncStat(stats, "misses"))]_vars

\* a key was set, clear removed it with the counters kept, and a get of it missed
ClearWitness ==
    /\ NoSetSinceClear
    /\ last.op = "get"
    /\ last.ret = last.default
    /\ stats.sets = 1
    /\ stats.misses = 1
    /\ stats.hits = 0
    /\ ops = 3
    /\ Len(entries) = 0

\* C14: the hit_rate get_stats reports is hits / (hits + misses) as a percentage,
\* to the nearest tenth of a percent; 3 hits and 1 miss give 75.0%; with no hit
\* and no miss it is 0.
HitRate ==
    last.op = "get_stats" =>
        LET total == stats.hits + stats.misses
            diff == last.hit_rate * total - 1000 * stats.hits
        IN /\ total = 0 => last.hit_rate = 0
           /\ total > 0 => (2 * diff <= total /\ -2 * diff <= total)
           /\ (stats.hits = 3 /\ stats.misses = 1) => last.hit_rate = 750

\* get_stats reported 75.0% after three hits and a miss
HitRateWitness ==
    /\ last.op = "get_stats"
    /\ stats.hits = 3
    /\ stats.misses = 1
    /\ last.hit_rate = 750

\* C16: whatever the attached logger raises, get, set, delete and clear return
\* their normal result, and entries and counters end as without the failure: in
\* particular a set ends with its key stored and counted.
LoggerFailuresSwallowed ==
    [][ops' = ops + 1 =>
           /\ last'.ret # "raise"
           /\ last'.op = "set" =>
                  (/\ HasKey(entries', last'.key)
                   /\ stats'.sets = stats.sets + 1)]_vars

\* C18: with no logger or with a Logger attached, get of a key that is not stored
\* raises nothing, returns the default it was given, adds 1 to misses and leaves
\* the entries and the other counters as they were.
AbsenceIsAValue ==
    [][(/\ logger.kind # "raising"
        /\ ops' = ops + 1
        /\ last'.op = "get"
        /\ ~HasKey(entries, last'.key))
       => (/\ last'.ret = last'.default
           /\ entries' = entries
           /\ stats' = [stats EXCEPT !.misses = @ + 1])]_vars

\* with a Logger attached and another key stored, a get missed and returned the default
AbsenceWitness ==
    /\ logger.kind = "Logger"
    /\ last.op = "get"
    /\ ~last.found
    /\ last.ret = last.default
    /\ stats.misses = 1
    /\ Len(entries) = 1
    /\ ~HasKey(entries, last.key)

\* C17: the constructor rejects a negative max_size, so that no get, set, delete
\* or clear is ever called on a cache whose max_size is below 0.
NegativeMaxSizeRejected == max_size < 0 => ops = 0

\* C20: in no step of any sequence of get, set, delete, clear and get_stats calls
\* does hits, misses, sets, evictions or expirations decrease; clear does not
\* reset them.
CountersMonotone ==
    [][\A name \in {"hits", "misses", "sets", "evictions", "expirations"} :
           stats'[name] >= stats[name]]_vars

\* after a set and a hit, clear emptied the cache and left sets and hits at 1
CountersWitness ==
    /\ last.op = "clear"
    /\ NoSetSinceClear
    /\ Len(entries) = 0
    /\ stats.sets = 1
    /\ stats.hits = 1
    /\ ops = 3

\* C19: whichever threads call get, set, delete, clear and get_stats on one cache,
\* with or without a Logger attached that they share and whose lock is taken
\* inside the cache's, every call that started returns, if the scheduler is fair.
NoCallBlocks == \A t \in Threads : (pc[t] # "idle") ~> (pc[t] = "idle")

\* a thread inside the cache's lock waits for the Logger's lock, which a thread
\* that called the Logger itself holds
NoCallBlocksWitness ==
    \E t, u \in Threads :
        /\ t # u
        /\ owner = t
        /\ pc[t] = "log_wait"
        /\ log_owner = u
        /\ frame[u].op = "log"
        /\ pc[u] = "log_emit"

\* C21: when a set overflows and _evict runs, expired entries are found and
\* purged: no expired entry is stored after it, and no entry that has not expired
\* is evicted while an expired one stays.
ExpiredPurgedOnEviction ==
    [][EvictStep =>
           /\ \A i \in 1..Len(entries') : ~is_expired(entries'[i], now)
           /\ ~(/\ \E v \in StoredKeys(entries) \ StoredKeys(entries') :
                       ~is_expired(EntryOf(entries, v), now)
                 /\ \E i \in 1..Len(entries') : is_expired(entries'[i], now))]_vars

\* C22: a get that finds a stored entry whose expiry is strictly before the
\* current time removes it, so that the size falls by 1, adds exactly 1 to
\* expirations, leaves hits as it was and returns the default.
ExpiredGet ==
    [][(/\ ops' = ops + 1
        /\ last'.op = "get"
        /\ HasKey(entries, last'.key)
        /\ EntryOf(entries, last'.key).expires # None
        /\ EntryOf(entries, last'.key).expires[1] < now)
       => (/\ ~HasKey(entries', last'.key)
           /\ Len(entries') = Len(entries) - 1
           /\ stats'.expirations = stats.expirations + 1
           /\ stats'.hits = stats.hits
           /\ last'.ret = last'.default)]_vars

\* a key set with a TTL of 1 at time 0 was read at time 2: the entry is gone and
\* counted as expired
ExpiredGetWitness ==
    /\ last.op = "get"
    /\ last.ret = last.default
    /\ stats.expirations = 1
    /\ stats.hits = 0
    /\ stats.misses = 0
    /\ stats.sets = 1
    /\ Len(entries) = 0
    /\ now = 2

\* this step is a set of a key that is not stored, made while size >= max_size
OverflowingSet ==
    /\ ops' = ops + 1
    /\ last'.op = "set"
    /\ ~HasKey(entries, last'.key)
    /\ Len(entries) >= max_size

\* this step removed exactly one entry, one the policy ranks lowest and not the
\* key being set, and added 1 to evictions
OneVictim ==
    /\ \E v \in StoredKeys(entries) \ {last'.key} :
           /\ StoredKeys(entries') = (StoredKeys(entries) \ {v}) \cup {last'.key}
           /\ \A i \in 1..Len(entries) :
                  EvictRank(policy, EntryOf(entries, v)) <= EvictRank(policy, entries[i])
    /\ stats'.evictions = stats.evictions + 1

Touches(k) ==
    /\ ops' = ops + 1
    /\ last'.key = k
    /\ HasKey(entries, k)
    /\ \/ last'.op = "get" /\ stats'.hits = stats.hits + 1
       \/ last'.op = "set"

\* C24: every successful get and every set of a stored key sets the entry's
\* last_accessed to the current time and adds exactly 1 to its access_count;
\* created is the time of the insertion and no get or update changes it;
\* access_count never decreases while the entry is stored.
EntryMetadata ==
    [][\A k \in Keys :
           /\ (HasKey(entries, k) /\ HasKey(entries', k)) =>
                  /\ EntryOf(entries', k).created = EntryOf(entries, k).created
                  /\ EntryOf(entries', k).access_count >= EntryOf(entries, k).access_count
                  /\ Touches(k) =>
                         /\ EntryOf(entries', k).last_accessed = now
                         /\ EntryOf(entries', k).access_count =
                                EntryOf(entries, k).access_count + 1
           /\ (~HasKey(entries, k) /\ HasKey(entries', k)) =>
                  /\ EntryOf(entries', k).created = now
                  /\ EntryOf(entries', k).access_count = 0]_vars

\* an entry inserted at time 0 was read at time 1 and set again at time 2
EntryMetadataWitness ==
    /\ last.op = "set"
    /\ last.found
    /\ stats.hits = 1
    /\ stats.sets = 2
    /\ Len(entries) = 1
    /\ entries[1].created = 0
    /\ entries[1].last_accessed = 2
    /\ entries[1].access_count = 2

\* C25: a set with a negative ttl stores an entry that has already expired (or
\* is rejected): the get of that key that follows it returns the default, never
\* the value.
NegativeTtlExpired ==
    [][(/\ last.op = "set"
        /\ last.ttl # None
        /\ last.ttl[1] < 0
        /\ ops' = ops + 1
        /\ last'.op = "get"
        /\ last'.key = last.key)
       => (/\ last'.ret = last'.default
           /\ ~HasKey(entries', last'.key))]_vars

\* with the clock still at 0, a set with ttl -1 and a get of the key: the get
\* returned the default and counted an expiration
NegativeTtlWitness ==
    /\ now = 0
    /\ ops = 2
    /\ last.op = "get"
    /\ last.ret = last.default
    /\ stats.sets = 1
    /\ stats.expirations = 1
    /\ Len(entries) = 0

\* C26: after set(key, value, ttl) the expiry of the entry is now + ttl if a ttl
\* was given, else now + default_ttl if the cache has one, else none, for a new
\* key and for an update alike.
ExpiryFromThisSet ==
    [][(ops' = ops + 1 /\ last'.op = "set") =>
           /\ HasKey(entries', last'.key)
           /\ EntryOf(entries', last'.key).expires =
                  IF last'.ttl # None THEN <<now + last'.ttl[1]>>
                  ELSE IF default_ttl # None THEN <<now + default_ttl[1]>>
                  ELSE None]_vars

\* C27: a set of a key whose stored entry has expired updates that entry in
\* place: the entry keeps its created time and its access_count plus one, the
\* stored keys and their order stay, expirations and evictions stay, and the
\* entry holds the new value and has not expired at the time of the set.
ReviveExpired ==
    [][(/\ ops' = ops + 1
        /\ last'.op = "set"
        /\ HasKey(entries, last'.key)
        /\ is_expired(EntryOf(entries, last'.key), now))
       => (/\ [i \in 1..Len(entries') |-> entries'[i].key] =
                  [i \in 1..Len(entries) |-> entries[i].key]
           /\ EntryOf(entries', last'.key).created = EntryOf(entries, last'.key).created
           /\ EntryOf(entries', last'.key).access_count =
                  EntryOf(entries, last'.key).access_count + 1
           /\ EntryOf(entries', last'.key).last_accessed = now
           /\ EntryOf(entries', last'.key).value = hist'[last'.key].val
           /\ ~is_expired(EntryOf(entries', last'.key), now)
           /\ stats'.expirations = stats.expirations
           /\ stats'.evictions = stats.evictions
           /\ stats'.sets = stats.sets + 1)]_vars

\* on a full cache of one entry set at 0 with an expiry of 1, a second set of the
\* key at 2: the entry is the one created at 0, accessed once, and not expired
ReviveWitness ==
    /\ max_size = 1
    /\ now = 2
    /\ ops = 2
    /\ last.op = "set"
    /\ last.found
    /\ stats.sets = 2
    /\ stats.expirations = 0
    /\ stats.evictions = 0
    /\ Len(entries) = 1
    /\ entries[1].created = 0
    /\ entries[1].access_count = 1
    /\ entries[1].last_accessed = 2
    /\ ~is_expired(entries[1], now)

\* C28: in every reachable state the number of stored entries is at most
\* sets - evictions - expirations.
SizeWithinCounters ==
    Len(entries) <= stats.sets - stats.evictions - stats.expirations

\* an entry was evicted and another found expired, and the bound is met with
\* equality
SizeWithinCountersWitness ==
    /\ stats.evictions >= 1
    /\ stats.expirations >= 1
    /\ Len(entries) = stats.sets - stats.evictions - stats.expirations

\* C29: "key in cache" and "cache[key]" each perform one get: exactly one of
\* hits, misses and expirations rises by one; a stored entry that has not expired
\* gets last_accessed = now and one more access_count, and one that has expired
\* is removed; a key stored with the value None is reported as not contained and
\* cache[key] raises KeyError for it, as for a key that is not stored.
IndexingIsAGet ==
    [][(ops' = ops + 1 /\ last'.op \in {"contains", "getitem"}) =>
        LET key == last'.key
            stored == HasKey(entries, key)
            live == stored /\ ~is_expired(EntryOf(entries, key), now)
            answer == IF live /\ EntryOf(entries, key).value # "None"
                      THEN IF last'.op = "contains" THEN "True"
                           ELSE EntryOf(entries, key).value
                      ELSE IF last'.op = "contains" THEN "False" ELSE "KeyError"
        IN /\ stats'.hits = stats.hits + (IF live THEN 1 ELSE 0)
           /\ stats'.misses = stats.misses + (IF stored THEN 0 ELSE 1)
           /\ stats'.expirations = stats.expirations + (IF stored /\ ~live THEN 1 ELSE 0)
           /\ stats'.sets = stats.sets
           /\ stats'.evictions = stats.evictions
           /\ live => /\ HasKey(entries', key)
                      /\ EntryOf(entries', key).last_accessed = now
                      /\ EntryOf(entries', key).access_count =
                             EntryOf(entries, key).access_count + 1
           /\ ~live => ~HasKey(entries', key)
           /\ last'.ret = answer]_vars

\* on an LRU cache of A and B, both set at 0, "A in cache" at 1 made B the victim
\* of the set of C: A, accessed once at 1, and C are stored
IndexingWitness ==
    /\ policy = "lru"
    /\ getCalls = 0
    /\ stats.sets = 3
    /\ stats.hits = 1
    /\ last.op = "set"
    /\ last.removed = {"B"}
    /\ Len(entries) = 2
    /\ entries[1].key = "A"
    /\ entries[1].created = 0
    /\ entries[1].access_count = 1
    /\ entries[1].last_accessed = 1
    /\ entries[2].key = "C"

\* "k in cache" answered False for a key stored with the value None, and counted
\* a hit
NoneNotContained ==
    /\ last.op = "contains"
    /\ last.ret = "False"
    /\ last.found
    /\ stats.hits = 1
    /\ HasKey(entries, last.key)
    /\ EntryOf(entries, last.key).value = "None"

\* the place of a level in the severity order DEBUG < INFO < WARNING < ERROR <
\* CRITICAL
Severity(level) ==
    CASE level = "DEBUG" -> 1
      [] level = "INFO" -> 2
      [] level = "WARNING" -> 3
      [] level = "ERROR" -> 4
      [] OTHER -> 5

\* C30: a Logger with minimum level L passes a message to its handlers if and
\* only if the level of the message is at least L in the severity order: the
\* handler's buffer gains the message exactly then.
SeverityFilter ==
    [][(ops' = ops + 1 /\ last'.op = "log") =>
           buffer' = IF Severity(last'.level) >= Severity(logger.min_level)
                     THEN Append(buffer, last'.level)
                     ELSE buffer]_vars

====
